---- MODULE Spec2Model ----
(***************************************************************************)
(* Screen sharing over TCP: the hub (server.py) that captures a frame,     *)
(* frames it as [4-byte big-endian length][payload] and fans it out to the *)
(* accepted sockets, and the consumer (client.py) that reads one frame per *)
(* Tk timer callback and reconnects on failure.                            *)
(*                                                                         *)
(* The specifications of the module:                                       *)
(*   Spec          the hub: main thread (start/stop), accept loop,         *)
(*                 capture-and-broadcast loop, one liveness watcher per    *)
(*                 socket;                                                 *)
(*   SpecInbound   the hub with consumers that write to their sockets;     *)
(*   SpecStats     the hub with the once-a-second statistics line;         *)
(*   SpecSlow      the hub with consumers that stop reading;               *)
(*   SpecClient    one consumer and the byte stream of its connection;     *)
(*   SpecApp       the consumer's window: discovery panel, connect         *)
(*                 button, timer callbacks, reconnects, shutdown;          *)
(*   SpecAppAgain  the window with a connect button used more than once;  *)
(*   SpecDiscovery the discovery object (discovery.py): browse sessions,   *)
(*                 browse-event callbacks, snapshot, close.                *)
(***************************************************************************)
EXTENDS Integers, Sequences, FiniteSets, TLC

\* ------------------------------------------------------------------ bounds
MaxLen == 2          \* longest payload, in bytes
MaxFrames == 1       \* frames the hub writes to one consumer connection
MaxSockets == 2      \* connections a consumer establishes
MaxConns == 2        \* consumers the hub accepts
MaxCycles == 2       \* capture cycles that build a packet
MaxScans == 2        \* discovery runs the consumer's window presents
MaxSessions == 2     \* browse sessions the discovery object opens
MaxPending == 2      \* callbacks pending when the connect button is used again

\* ------------------------------------------------------- program constants
HeaderLen == 4       \* struct '>I' and recv(4)
RecvBuf == 65536     \* largest single payload read
AfterStart == 100    \* ms, first scheduled callback
AfterOk == 10        \* ms, reschedule after a normal pass
AfterFail == 2000    \* ms, reschedule after a raised failure
MaxWidth == 1280     \* widest image sent unscaled

ByteVals == {0, 1}

Min(a, b) == IF a < b THEN a ELSE b

RECURSIVE SeqsUpTo(_, _)
SeqsUpTo(S, n) ==
    IF n = 0 THEN {<<>>}
    ELSE LET r == SeqsUpTo(S, n - 1)
         IN  r \cup {Append(s, x) : s \in {t \in r : Len(t) = n - 1}, x \in S}

\* the encoded images the hub may produce (opaque above the framing layer)
Payloads == SeqsUpTo(ByteVals, MaxLen)

\* --------------------------------------------------------------- framing
\* struct.pack('>I', n): most significant byte first
PackBE(n) == [i \in 1..HeaderLen |-> (n \div (256 ^ (HeaderLen - i))) % 256]

\* struct.unpack('>I', b)[0]; raises struct.error unless len(b) = 4
UnpackOK(b) == Len(b) = HeaderLen
UnpackBE(b) == b[1] * (256 ^ 3) + b[2] * (256 ^ 2) + b[3] * 256 + b[4]

\* packet = struct.pack('>I', frame_size) + frame_data
Packet(frame) == PackBE(Len(frame)) \o frame

Drop(s, k) == SubSeq(s, k + 1, Len(s))
Take(s, k) == SubSeq(s, 1, k)
RemoveAt(s, i) == Take(s, i - 1) \o Drop(s, i)

VARIABLES
    \* ---- consumer (client.py)
    socket,        \* self.socket: 0 is None, n > 0 the n-th connected socket
    connected,     \* self.connected
    after,         \* pending root.after(...) callbacks, by delay
    status,        \* what status_label shows
    cpc,           \* where the running callback is ("idle": none running)
    size_data,     \* bytes returned by recv(4)
    frame_size,    \* declared payload length
    frame_data,    \* payload accumulated so far
    \* ---- the consumer's connection, seen from both ends
    stream,        \* bytes written by the hub and not yet read
    peer_closed,   \* the hub's end is closed: end-of-stream after `stream`
    sent,          \* payloads the hub wrote on this connection, in order
    ndecoded,      \* frames handed to Image.open on this connection
    rx,            \* how the latest receive step on this connection ended
    nsock          \* sockets this consumer has connected so far

VARIABLES
    \* ---- hub (server.py)
    server_socket, \* "None", "unbound", "listening" or "closed"
    running,       \* self.running
    clients,       \* self.clients, a list of accepted sockets
    lock,          \* holder of self.lock over several steps ("free" if none)
    mpc,           \* main thread: where it is in start() / stop()
    stops,         \* calls of stop() made so far: 0, 1, 2 (two or more)
    raised,        \* exception that escaped the main thread's latest call
    apc,           \* accept thread
    acc,           \* client_socket of the accept in progress (0: none)
    wpc,           \* liveness watcher of each socket
    kpc,           \* capture-and-broadcast thread
    width,         \* screenshot.size[0] of the cycle
    frame_no,      \* packets built so far; the current packet's number
    idx,           \* position of the fan-out loop in self.clients
    disconnected_clients,
    \* ---- the hub's connections
    csock,         \* hub-side socket object: "none", "open", "closed"
    peer,          \* consumer end: "none", "up", "closed"
    last_read,     \* socket whose watcher last read data (0: none has)
    delivered      \* numbers of the packets a sendall wrote in full, in order

VARIABLES
    \* ---- the consumer's window (client.py: discovery panel, shutdown)
    arg_host,         \* server_host given to __init__ (0: None)
    server_host,      \* self.server_host with self.server_port (0: None)
    discovery_frame,  \* "packed" or "forgotten" (pack_forget)
    service_list,     \* the Listbox rows, the keys of self.services, in order
    selected_service, \* self.selected_service (0: None)
    tpc,              \* discovery run: "off", "scheduled" or "scan"
    nscans,           \* discovery runs whose results have been presented
    closed_socks,     \* consumer sockets whose descriptor has been closed
    window            \* "open" or "destroyed"

VARIABLES
    \* ---- the discovery object (discovery.py)
    zeroconf,         \* self.zeroconf: the latest session (0: None)
    zc_open,          \* sessions whose Zeroconf has not been closed
    services,         \* self.services: name -> resolved record (0: no key)
    dlock,            \* holder of self.lock ("free" if none)
    dpc,              \* the caller of discover_services
    snapshot,         \* what the latest discover_services returned
    hpc,              \* browse callback of each session: <<name, record>>
                      \* resolved and not yet stored (<<0, 0>>: none)
    last_event        \* per name, the latest event that reached the map

hubVars == <<server_socket, running, clients, lock, mpc, stops, raised, apc,
             acc, wpc, kpc, width, frame_no, idx, disconnected_clients, csock,
             peer, last_read, delivered>>

clientVars == <<socket, connected, after, status, cpc, size_data, frame_size,
                frame_data, stream, peer_closed, sent, ndecoded, rx, nsock>>

appVars == <<arg_host, server_host, discovery_frame, service_list,
             selected_service, tpc, nscans, closed_socks, window>>

discVars == <<zeroconf, zc_open, services, dlock, dpc, snapshot, hpc,
              last_event>>

vars == <<hubVars, clientVars, appVars, discVars>>

\* ================================================================ consumer

\* __init__ apart from the first scheduled callback
ClientFields ==
    /\ socket = 0
    /\ connected = FALSE
    /\ status = "init"
    /\ cpc = "idle"
    /\ size_data = <<>>
    /\ frame_size = 0
    /\ frame_data = <<>>
    /\ stream = <<>>
    /\ peer_closed = FALSE
    /\ sent = <<>>
    /\ ndecoded = 0
    /\ rx = "none"
    /\ nsock = 0

\* __init__ with a server_host: root.after(100, self._connect_and_receive)
ClientInit ==
    /\ ClientFields
    /\ after = <<AfterStart>>

InRecv == {"recv_size", "recv_data"}

\* An exception e reaches the handler of _connect_and_receive (through the
\* re-raise of _connect or of _receive_frame, which first clear connected):
\* not connected, the failure shown, a retry in 2 s. The callback ends.
Raise(e) ==
    /\ connected' = FALSE
    /\ status' = e
    /\ after' = Append(after, AfterFail)
    /\ cpc' = "idle"

\* the pass ends normally: root.after(10, self._connect_and_receive)
Reschedule ==
    /\ after' = Append(after, AfterOk)
    /\ cpc' = "idle"

\* the Tk event loop runs one due callback (to completion, before the next)
Tick ==
    /\ cpc = "idle"
    /\ \E i \in 1..Len(after) : after' = RemoveAt(after, i)
    /\ cpc' = IF connected THEN "recv_size" ELSE "connect"
    /\ UNCHANGED <<socket, connected, status, size_data, frame_size, frame_data,
                   stream, peer_closed, sent, ndecoded, rx, nsock>>

\* _connect succeeds: a new socket object replaces self.socket; its stream
\* starts empty. The same callback goes on to _receive_frame.
ConnectOK ==
    /\ cpc = "connect"
    /\ nsock < MaxSockets
    /\ nsock' = nsock + 1
    /\ socket' = nsock + 1
    /\ connected' = TRUE
    /\ status' = "connected"
    /\ stream' = <<>>
    /\ peer_closed' = FALSE
    /\ sent' = <<>>
    /\ ndecoded' = 0
    /\ rx' = "none"
    /\ cpc' = "recv_size"
    /\ UNCHANGED <<after, size_data, frame_size, frame_data>>

\* (mutant) a failed connect is reported and no retry is scheduled
ConnectFail_NoRetry ==
    /\ cpc = "connect"
    /\ socket' = 0
    /\ connected' = FALSE
    /\ status' = "ConnectError"
    /\ cpc' = "idle"
    /\ UNCHANGED <<after, size_data, frame_size, frame_data, stream,
                   peer_closed, sent, ndecoded, rx, nsock>>

\* _connect fails (refused, unreachable, connect timeout): socket = None, raise
ConnectFail ==
    /\ cpc = "connect"
    /\ socket' = 0
    /\ Raise("ConnectError")
    /\ UNCHANGED <<size_data, frame_size, frame_data, stream, peer_closed,
                   sent, ndecoded, rx, nsock>>

\* size_data = self.socket.recv(4) returns k >= 1 of the bytes that have
\* arrived (a stream read may return fewer than asked); then struct.unpack
RecvSize(k) ==
    /\ cpc = "recv_size"
    /\ socket # 0      \* connected implies a socket: `if not self.socket` is false
    /\ k \in 1..Min(HeaderLen, Len(stream))
    /\ size_data' = Take(stream, k)
    /\ stream' = Drop(stream, k)
    /\ IF UnpackOK(size_data')
       THEN /\ frame_size' = UnpackBE(size_data')
            /\ frame_data' = <<>>
            /\ cpc' = "recv_data"
            /\ UNCHANGED <<connected, status, after, rx>>
       ELSE /\ Raise("struct.error")
            /\ rx' = "error"
            /\ UNCHANGED <<frame_size, frame_data>>
    /\ UNCHANGED <<socket, peer_closed, sent, ndecoded, nsock>>

\* recv(4) returns b'' at end-of-stream: ConnectionError
RecvSizeEOF ==
    /\ cpc = "recv_size"
    /\ socket # 0
    /\ stream = <<>> /\ peer_closed
    /\ size_data' = <<>>
    /\ Raise("ConnectionError")
    /\ rx' = "error"
    /\ UNCHANGED <<socket, frame_size, frame_data, stream, peer_closed, sent,
                   ndecoded, nsock>>

\* chunk = recv(min(frame_size - len(frame_data), 65536)); frame_data += chunk
RecvData(k) ==
    /\ cpc = "recv_data"
    /\ Len(frame_data) < frame_size
    /\ k \in 1..Min(Min(frame_size - Len(frame_data), RecvBuf), Len(stream))
    /\ frame_data' = frame_data \o Take(stream, k)
    /\ stream' = Drop(stream, k)
    /\ UNCHANGED <<socket, connected, after, status, cpc, size_data, frame_size,
                   peer_closed, sent, ndecoded, rx, nsock>>

\* (mutant) an empty chunk ends the loop and the partial payload is decoded
RecvDataEOF_Break ==
    /\ cpc = "recv_data"
    /\ Len(frame_data) < frame_size
    /\ stream = <<>> /\ peer_closed
    /\ cpc' = "decode"
    /\ rx' = "decode"
    /\ ndecoded' = ndecoded + 1
    /\ UNCHANGED <<socket, connected, after, status, size_data, frame_size,
                   frame_data, stream, peer_closed, sent, nsock>>

\* a payload recv returns b'' at end-of-stream: ConnectionError
RecvDataEOF ==
    /\ cpc = "recv_data"
    /\ Len(frame_data) < frame_size
    /\ stream = <<>> /\ peer_closed
    /\ Raise("ConnectionError")
    /\ rx' = "error"
    /\ UNCHANGED <<socket, size_data, frame_size, frame_data, stream,
                   peer_closed, sent, ndecoded, nsock>>

\* (mutant) a timeout is raised like any other error
RecvTimeout_Raise ==
    /\ cpc \in InRecv
    /\ cpc = "recv_data" => Len(frame_data) < frame_size
    /\ stream = <<>> /\ ~peer_closed
    /\ rx' = "timeout"
    /\ Raise("timeout")
    /\ UNCHANGED <<socket, size_data, frame_size, frame_data, stream,
                   peer_closed, sent, ndecoded, nsock>>

\* no byte arrives within the 5 s socket timeout: except socket.timeout sets
\* connected = False and returns; the pass reschedules itself normally
RecvTimeout ==
    /\ cpc \in InRecv
    /\ cpc = "recv_data" => Len(frame_data) < frame_size
    /\ stream = <<>> /\ ~peer_closed
    /\ connected' = FALSE
    /\ rx' = "timeout"
    /\ Reschedule
    /\ UNCHANGED <<socket, status, size_data, frame_size, frame_data, stream,
                   peer_closed, sent, ndecoded, nsock>>

\* the while loop ends with len(frame_data) >= frame_size: Image.open is
\* called on frame_data
RecvDone ==
    /\ cpc = "recv_data"
    /\ Len(frame_data) >= frame_size
    /\ cpc' = "decode"
    /\ rx' = "decode"
    /\ ndecoded' = ndecoded + 1
    /\ UNCHANGED <<socket, connected, after, status, size_data, frame_size,
                   frame_data, stream, peer_closed, sent, nsock>>

\* the decoder accepts the payload: the image is rendered
DecodeOK ==
    /\ cpc = "decode"
    /\ frame_data # <<>>
    /\ Reschedule
    /\ UNCHANGED <<socket, connected, status, size_data, frame_size, frame_data,
                   stream, peer_closed, sent, ndecoded, rx, nsock>>

\* the decoder rejects the payload (always, when it is empty)
DecodeFail ==
    /\ cpc = "decode"
    /\ Raise("decode error")
    /\ UNCHANGED <<socket, size_data, frame_size, frame_data, stream,
                   peer_closed, sent, ndecoded, rx, nsock>>

\* ---- the hub's end of the consumer's connection
\* sendall(packet) of one more frame
HubSend(frame) ==
    /\ socket # 0 /\ ~peer_closed
    /\ Len(sent) < MaxFrames
    /\ stream' = stream \o Packet(frame)
    /\ sent' = Append(sent, frame)
    /\ UNCHANGED <<socket, connected, after, status, cpc, size_data, frame_size,
                   frame_data, peer_closed, ndecoded, rx, nsock>>

\* the hub's end closes; bytes written but not delivered beyond the first k
\* are lost (a reset, or a sendall that was cut short)
HubClose(k) ==
    /\ socket # 0 /\ ~peer_closed
    /\ k \in 0..Len(stream)
    /\ stream' = Take(stream, k)
    /\ peer_closed' = TRUE
    /\ UNCHANGED <<socket, connected, after, status, cpc, size_data, frame_size,
                   frame_data, sent, ndecoded, rx, nsock>>

ClientNext ==
    \/ Tick /\ UNCHANGED <<hubVars, appVars, discVars>>
    \/ ConnectOK /\ UNCHANGED <<hubVars, appVars, discVars>>
    \/ ConnectFail /\ UNCHANGED <<hubVars, appVars, discVars>>
    \/ \E k \in 1..HeaderLen : RecvSize(k) /\ UNCHANGED <<hubVars, appVars, discVars>>
    \/ RecvSizeEOF /\ UNCHANGED <<hubVars, appVars, discVars>>
    \/ \E k \in 1..MaxLen : RecvData(k) /\ UNCHANGED <<hubVars, appVars, discVars>>
    \/ RecvDataEOF /\ UNCHANGED <<hubVars, appVars, discVars>>
    \/ RecvTimeout /\ UNCHANGED <<hubVars, appVars, discVars>>
    \/ RecvDone /\ UNCHANGED <<hubVars, appVars, discVars>>
    \/ DecodeOK /\ UNCHANGED <<hubVars, appVars, discVars>>
    \/ DecodeFail /\ UNCHANGED <<hubVars, appVars, discVars>>
    \/ \E frame \in Payloads : HubSend(frame) /\ UNCHANGED <<hubVars, appVars, discVars>>
    \/ \E k \in 0..(MaxFrames * (HeaderLen + MaxLen)) :
          HubClose(k) /\ UNCHANGED <<hubVars, appVars, discVars>>

\* ===================================================================== hub

Conn == 1..MaxConns
Widths == {MaxWidth, MaxWidth + 1}
\* the consumers that (against the protocol) write to their socket
Talkers == {1}

Range(s) == {s[i] : i \in 1..Len(s)}
Last(s) == s[Len(s)]

\* list.remove(x) for each x of gone that is in the list
RECURSIVE Without(_, _)
Without(s, gone) ==
    IF s = <<>> THEN <<>>
    ELSE IF s[1] \in gone THEN Without(Tail(s), gone)
         ELSE <<s[1]>> \o Without(Tail(s), gone)

\* __init__
HubInit ==
    /\ server_socket = "None"
    /\ running = FALSE
    /\ clients = <<>>
    /\ lock = "free"
    /\ mpc = "init"
    /\ stops = 0
    /\ raised = "none"
    /\ apc = "off"
    /\ acc = 0
    /\ wpc = [c \in Conn |-> "off"]
    /\ kpc = "off"
    /\ width = 0
    /\ frame_no = 0
    /\ idx = 0
    /\ disconnected_clients = <<>>
    /\ csock = [c \in Conn |-> "none"]
    /\ peer = [c \in Conn |-> "none"]
    /\ last_read = 0
    /\ delivered = [c \in Conn |-> <<>>]

\* ---- main thread

\* start(): bind and listen succeed; running = True; both threads start and
\* the caller stays in the while self.running loop
StartOK ==
    /\ mpc = "init"
    /\ server_socket' = "listening"
    /\ running' = TRUE
    /\ kpc' = "loop"
    /\ apc' = "loop"
    /\ mpc' = "serving"
    /\ raised' = "none"
    /\ UNCHANGED <<clients, lock, stops, acc, wpc, width, frame_no, idx,
                   disconnected_clients, csock, peer, last_read, delivered>>

\* start(): bind raises (address in use); the exception leaves start() with
\* the socket created and nothing started
StartFail ==
    /\ mpc = "init"
    /\ server_socket' = "unbound"
    /\ mpc' = "returned"
    /\ raised' = "OSError"
    /\ UNCHANGED <<running, clients, lock, stops, apc, acc, wpc, kpc, width,
                   frame_no, idx, disconnected_clients, csock, peer, last_read,
                   delivered>>

\* stop() is called (KeyboardInterrupt in start(), or by the owner of a server
\* that is not serving): self.running = False
StopFlag ==
    /\ mpc \in {"init", "serving", "returned"}
    /\ stops' = Min(stops + 1, 2)
    /\ running' = FALSE
    /\ raised' = "none"
    /\ mpc' = "stop_clients"
    /\ UNCHANGED <<server_socket, clients, lock, apc, acc, wpc, kpc, width,
                   frame_no, idx, disconnected_clients, csock, peer, last_read,
                   delivered>>

\* (mutant) stop() closes the sockets and leaves them in the list
StopClients_KeepList ==
    /\ mpc = "stop_clients"
    /\ lock = "free"
    /\ csock' = [c \in Conn |-> IF c \in Range(clients) THEN "closed"
                                 ELSE csock[c]]
    /\ mpc' = "stop_listen"
    /\ UNCHANGED <<server_socket, running, clients, lock, stops, raised, apc,
                   acc, wpc, kpc, width, frame_no, idx, disconnected_clients,
                   peer, last_read, delivered>>

\* with self.lock: close every socket of self.clients; self.clients.clear()
StopClients ==
    /\ mpc = "stop_clients"
    /\ lock = "free"
    /\ csock' = [c \in Conn |-> IF c \in Range(clients) THEN "closed"
                                 ELSE csock[c]]
    /\ clients' = <<>>
    /\ mpc' = "stop_listen"
    /\ UNCHANGED <<server_socket, running, lock, stops, raised, apc, acc, wpc,
                   kpc, width, frame_no, idx, disconnected_clients, peer,
                   last_read, delivered>>

\* (mutant) self.server_socket.close() outside any try
StopListen_NoTry ==
    /\ mpc = "stop_listen"
    /\ server_socket' = IF server_socket = "None" THEN "None" ELSE "closed"
    /\ raised' = IF server_socket = "None" THEN "AttributeError" ELSE "none"
    /\ mpc' = "returned"
    /\ UNCHANGED <<running, clients, lock, stops, apc, acc, wpc, kpc, width,
                   frame_no, idx, disconnected_clients, csock, peer, last_read,
                   delivered>>

\* try: self.server_socket.close() except: pass. With server_socket None the
\* call raises AttributeError, which the bare except swallows.
StopListen ==
    /\ mpc = "stop_listen"
    /\ server_socket' = IF server_socket = "None" THEN "None" ELSE "closed"
    /\ raised' = "none"
    /\ mpc' = "returned"
    /\ UNCHANGED <<running, clients, lock, stops, apc, acc, wpc, kpc, width,
                   frame_no, idx, disconnected_clients, csock, peer, last_read,
                   delivered>>

\* ---- accept thread (_accept_clients)

\* while self.running
AccLoop ==
    /\ apc = "loop"
    /\ apc' = IF running THEN "accept" ELSE "done"
    /\ UNCHANGED <<server_socket, running, clients, lock, mpc, stops, raised,
                   acc, wpc, kpc, width, frame_no, idx, disconnected_clients,
                   csock, peer, last_read, delivered>>

\* accept() returns the socket of a consumer that connected
AccAccept(c) ==
    /\ apc = "accept"
    /\ server_socket = "listening"
    /\ csock[c] = "none"
    /\ \A d \in Conn : d < c => csock[d] # "none"
    /\ csock' = [csock EXCEPT ![c] = "open"]
    /\ peer' = [peer EXCEPT ![c] = "up"]
    /\ acc' = c
    /\ apc' = "append"
    /\ UNCHANGED <<server_socket, running, clients, lock, mpc, stops, raised,
                   wpc, kpc, width, frame_no, idx, disconnected_clients,
                   last_read, delivered>>

\* accept() raises while the socket is listening (ECONNABORTED, EMFILE, ...):
\* except Exception: ... break
AccError ==
    /\ apc = "accept"
    /\ server_socket = "listening"
    /\ apc' = "done"
    /\ UNCHANGED <<server_socket, running, clients, lock, mpc, stops, raised,
                   acc, wpc, kpc, width, frame_no, idx, disconnected_clients,
                   csock, peer, last_read, delivered>>

\* accept() raises because stop() closed the listening socket: break
AccClosed ==
    /\ apc = "accept"
    /\ server_socket = "closed"
    /\ apc' = "done"
    /\ UNCHANGED <<server_socket, running, clients, lock, mpc, stops, raised,
                   acc, wpc, kpc, width, frame_no, idx, disconnected_clients,
                   csock, peer, last_read, delivered>>

\* with self.lock: self.clients.append(client_socket); then the watcher thread
\* of the socket is started (it blocks in recv) and the loop test comes next
AccAppend ==
    /\ apc = "append"
    /\ lock = "free"
    /\ clients' = Append(clients, acc)
    /\ wpc' = [wpc EXCEPT ![acc] = "recv"]
    /\ acc' = 0
    /\ apc' = "loop"
    /\ UNCHANGED <<server_socket, running, lock, mpc, stops, raised, kpc,
                   width, frame_no, idx, disconnected_clients, csock, peer,
                   last_read, delivered>>

\* ---- liveness watcher (_handle_client_disconnect)

\* The consumer wrote bytes and recv(1024) returns them: `if not data` is
\* false and the loop reads again.
WatchData(c) ==
    /\ c \in Talkers
    /\ wpc[c] = "recv"
    /\ csock[c] = "open" /\ peer[c] = "up"
    /\ last_read' = c
    /\ UNCHANGED <<server_socket, running, clients, lock, mpc, stops, raised,
                   apc, acc, wpc, kpc, width, frame_no, idx,
                   disconnected_clients, csock, peer, delivered>>

\* (mutant) the except branch closes the socket and leaves it in the list
WatchRemove_NoRemove(c) ==
    /\ wpc[c] = "recv"
    /\ peer[c] = "closed" \/ csock[c] = "closed"
    /\ lock = "free"
    /\ wpc' = [wpc EXCEPT ![c] = "close"]
    /\ UNCHANGED <<server_socket, running, clients, lock, mpc, stops, raised,
                   apc, acc, kpc, width, frame_no, idx, disconnected_clients,
                   csock, peer, last_read, delivered>>

\* recv returns b'' (the consumer closed) or raises (reset, or the hub closed
\* the socket): the except branch runs
\*   with self.lock: if client_socket in self.clients: remove it
\* (what made recv fail stays true while the watcher waits for the lock)
WatchRemove(c) ==
    /\ wpc[c] = "recv"
    /\ peer[c] = "closed" \/ csock[c] = "closed"
    /\ lock = "free"
    /\ clients' = Without(clients, {c})
    /\ wpc' = [wpc EXCEPT ![c] = "close"]
    /\ UNCHANGED <<server_socket, running, lock, mpc, stops, raised, apc, acc,
                   kpc, width, frame_no, idx, disconnected_clients, csock,
                   peer, last_read, delivered>>

\* client_socket.close()
WatchClose(c) ==
    /\ wpc[c] = "close"
    /\ csock' = [csock EXCEPT ![c] = "closed"]
    /\ wpc' = [wpc EXCEPT ![c] = "done"]
    /\ UNCHANGED <<server_socket, running, clients, lock, mpc, stops, raised,
                   apc, acc, kpc, width, frame_no, idx, disconnected_clients,
                   peer, last_read, delivered>>

\* ---- capture thread (_capture_and_broadcast)

\* while self.running: false, the thread ends
CapExit ==
    /\ kpc = "loop"
    /\ ~running
    /\ kpc' = "done"
    /\ UNCHANGED <<server_socket, running, clients, lock, mpc, stops, raised,
                   apc, acc, wpc, width, frame_no, idx, disconnected_clients,
                   csock, peer, last_read, delivered>>

\* while self.running: true, and the cycle up to the packet, all of it local:
\* screenshot = ImageGrab.grab() of width w; the resize when w > 1280; save
\* as JPEG; packet = pack('>I', size) + data. server.py never imports Image,
\* so the resize line raises NameError, which the except Exception of the
\* loop catches like any other failure.
CapBuild(w) ==
    /\ kpc = "loop"
    /\ running
    /\ frame_no < MaxCycles
    /\ width' = w
    /\ IF w > MaxWidth
       THEN /\ kpc' = "backoff"
            /\ UNCHANGED frame_no
       ELSE /\ frame_no' = frame_no + 1
            /\ kpc' = "lock"
    /\ UNCHANGED <<server_socket, running, clients, lock, mpc, stops, raised,
                   apc, acc, wpc, idx, disconnected_clients, csock, peer,
                   last_read, delivered>>

\* ImageGrab.grab() or screenshot.save raises: except Exception
CapBuildFail ==
    /\ kpc = "loop"
    /\ running
    /\ kpc' = "backoff"
    /\ UNCHANGED <<server_socket, running, clients, lock, mpc, stops, raised,
                   apc, acc, wpc, width, frame_no, idx, disconnected_clients,
                   csock, peer, last_read, delivered>>

\* (mutant) the loop ends after a failed cycle
CapBackoff_Exit ==
    /\ kpc = "backoff"
    /\ kpc' = "done"
    /\ width' = 0
    /\ UNCHANGED <<server_socket, running, clients, lock, mpc, stops, raised,
                   apc, acc, wpc, frame_no, idx, disconnected_clients, csock,
                   peer, last_read, delivered>>

\* time.sleep(1) in the except branch; the loop goes on
CapBackoff ==
    /\ kpc = "backoff"
    /\ kpc' = "loop"
    /\ width' = 0
    /\ UNCHANGED <<server_socket, running, clients, lock, mpc, stops, raised,
                   apc, acc, wpc, frame_no, idx, disconnected_clients, csock,
                   peer, last_read, delivered>>

\* with self.lock: disconnected_clients = []; the for loop starts
CapLock ==
    /\ kpc = "lock"
    /\ lock = "free"
    /\ lock' = "capture"
    /\ disconnected_clients' = <<>>
    /\ idx' = 1
    /\ kpc' = "send"
    /\ UNCHANGED <<server_socket, running, clients, mpc, stops, raised, apc,
                   acc, wpc, width, frame_no, csock, peer, last_read, delivered>>

\* (mutant) the loop does not move on after a send
CapSendOK_NoAdvance ==
    /\ kpc = "send"
    /\ idx <= Len(clients)
    /\ csock[clients[idx]] = "open"
    /\ peer[clients[idx]] # "stalled"
    /\ delivered' = [delivered EXCEPT
                        ![clients[idx]] = Append(@, frame_no)]
    /\ UNCHANGED <<server_socket, running, clients, lock, mpc, stops, raised,
                   apc, acc, wpc, kpc, width, frame_no, idx,
                   disconnected_clients, csock, peer, last_read>>

\* client_socket.sendall(packet) returns: the whole packet was written. The
\* accepted sockets are blocking and have no timeout: while the consumer does
\* not read and its buffers are full, sendall does not return.
CapSendOK ==
    /\ kpc = "send"
    /\ idx <= Len(clients)
    /\ csock[clients[idx]] = "open"
    /\ peer[clients[idx]] # "stalled"
    /\ delivered' = [delivered EXCEPT
                        ![clients[idx]] = Append(@, frame_no)]
    /\ idx' = idx + 1
    /\ UNCHANGED <<server_socket, running, clients, lock, mpc, stops, raised,
                   apc, acc, wpc, kpc, width, frame_no, disconnected_clients,
                   csock, peer, last_read>>

\* (mutant) a failed send ends the for loop
CapSendFail_Abort ==
    /\ kpc = "send"
    /\ idx <= Len(clients)
    /\ peer[clients[idx]] = "closed" \/ csock[clients[idx]] = "closed"
    /\ disconnected_clients' = Append(disconnected_clients, clients[idx])
    /\ idx' = Len(clients) + 1
    /\ UNCHANGED <<server_socket, running, clients, lock, mpc, stops, raised,
                   apc, acc, wpc, kpc, width, frame_no, csock, peer, last_read,
                   delivered>>

\* sendall raises (the consumer is gone, or the socket is closed): the socket
\* is noted in disconnected_clients and the loop goes on
CapSendFail ==
    /\ kpc = "send"
    /\ idx <= Len(clients)
    /\ peer[clients[idx]] = "closed" \/ csock[clients[idx]] = "closed"
    /\ disconnected_clients' = Append(disconnected_clients, clients[idx])
    /\ idx' = idx + 1
    /\ UNCHANGED <<server_socket, running, clients, lock, mpc, stops, raised,
                   apc, acc, wpc, kpc, width, frame_no, csock, peer, last_read,
                   delivered>>

\* The for loop is over: remove every noted socket still in self.clients and
\* leave the with block; frame_count += 1. The locals of the cycle are dead
\* from here on. What follows is at `next`.
CapPassEnd(next) ==
    /\ kpc = "send"
    /\ idx > Len(clients)
    /\ clients' = Without(clients, Range(disconnected_clients))
    /\ lock' = "free"
    /\ kpc' = next
    /\ width' = 0
    /\ idx' = 0
    /\ disconnected_clients' = <<>>
    /\ UNCHANGED <<server_socket, running, mpc, stops, raised, apc, acc, wpc,
                   frame_no, csock, peer, last_read, delivered>>

\* less than a second since the last statistics line: the `if` is false and
\* the cycle ends with time.sleep(1.0 / self.fps)
CapRemove == CapPassEnd("loop")

\* a second has passed: the statistics line is due
CapRemoveStats == CapPassEnd("stats")

\* connected = len(self.clients), after the with block has been left; print;
\* time.sleep(1.0 / self.fps)
CapStats ==
    /\ kpc = "stats"
    /\ kpc' = "loop"
    /\ UNCHANGED <<server_socket, running, clients, lock, mpc, stops, raised,
                   apc, acc, wpc, width, frame_no, idx, disconnected_clients,
                   csock, peer, last_read, delivered>>

\* ---- consumers of the hub

\* the consumer closes its end (or its host goes away)
PeerClose(c) ==
    /\ peer[c] = "up"
    /\ peer' = [peer EXCEPT ![c] = "closed"]
    /\ UNCHANGED <<server_socket, running, clients, lock, mpc, stops, raised,
                   apc, acc, wpc, kpc, width, frame_no, idx,
                   disconnected_clients, csock, last_read, delivered>>

\* the consumer stops reading (a slow consumer, or a host that went away
\* without closing): its buffers fill up
PeerStall(c) ==
    /\ peer[c] = "up"
    /\ peer' = [peer EXCEPT ![c] = "stalled"]
    /\ UNCHANGED <<server_socket, running, clients, lock, mpc, stops, raised,
                   apc, acc, wpc, kpc, width, frame_no, idx,
                   disconnected_clients, csock, last_read, delivered>>

Next ==
    \/ StartOK /\ UNCHANGED <<clientVars, appVars, discVars>>
    \/ StartFail /\ UNCHANGED <<clientVars, appVars, discVars>>
    \/ StopFlag /\ UNCHANGED <<clientVars, appVars, discVars>>
    \/ StopClients /\ UNCHANGED <<clientVars, appVars, discVars>>
    \/ StopListen /\ UNCHANGED <<clientVars, appVars, discVars>>
    \/ AccLoop /\ UNCHANGED <<clientVars, appVars, discVars>>
    \/ \E c \in Conn : AccAccept(c) /\ UNCHANGED <<clientVars, appVars, discVars>>
    \/ AccError /\ UNCHANGED <<clientVars, appVars, discVars>>
    \/ AccClosed /\ UNCHANGED <<clientVars, appVars, discVars>>
    \/ AccAppend /\ UNCHANGED <<clientVars, appVars, discVars>>
    \/ \E c \in Conn : WatchRemove(c) /\ UNCHANGED <<clientVars, appVars, discVars>>
    \/ \E c \in Conn : WatchClose(c) /\ UNCHANGED <<clientVars, appVars, discVars>>
    \/ CapExit /\ UNCHANGED <<clientVars, appVars, discVars>>
    \/ \E w \in Widths : CapBuild(w) /\ UNCHANGED <<clientVars, appVars, discVars>>
    \/ CapBuildFail /\ UNCHANGED <<clientVars, appVars, discVars>>
    \/ CapBackoff /\ UNCHANGED <<clientVars, appVars, discVars>>
    \/ CapLock /\ UNCHANGED <<clientVars, appVars, discVars>>
    \/ CapSendOK /\ UNCHANGED <<clientVars, appVars, discVars>>
    \/ CapSendFail /\ UNCHANGED <<clientVars, appVars, discVars>>
    \/ CapRemove /\ UNCHANGED <<clientVars, appVars, discVars>>
    \/ \E c \in Conn : PeerClose(c) /\ UNCHANGED <<clientVars, appVars, discVars>>

\* =============================================================== discovery

\* the advertised names, and the records get_service_info resolves them to
\* (ip and port; two, so that an update differs from what it replaces)
Names == {1, 2}
Infos == {1, 2}
Session == 1..MaxSessions
NoKeys == [n \in Names |-> 0]
NoCall == <<0, 0>>

\* ScreenShareDiscovery.__init__
DiscInit ==
    /\ zeroconf = 0
    /\ zc_open = {}
    /\ services = NoKeys
    /\ dlock = "free"
    /\ dpc = "idle"
    /\ snapshot = NoKeys
    /\ hpc = [s \in Session |-> NoCall]
    /\ last_event = [n \in Names |-> "none"]

\* discover_services: self.zeroconf = Zeroconf() replaces the reference to the
\* previous session without closing it; the ServiceBrowser of the new session
\* starts; the caller sleeps for `timeout`
DiscoverStart ==
    /\ dpc = "idle"
    /\ zeroconf < MaxSessions
    /\ zeroconf' = zeroconf + 1
    /\ zc_open' = zc_open \cup {zeroconf + 1}
    /\ dpc' = "sleep"
    /\ UNCHANGED <<services, dlock, snapshot, hpc, last_event>>

\* discover_services: Zeroconf() raises (no usable interface): except
\* Exception: return []
DiscoverFail ==
    /\ dpc = "idle"
    /\ snapshot' = NoKeys
    /\ UNCHANGED <<zeroconf, zc_open, services, dlock, dpc, hpc, last_event>>

\* the sleep is over: with self.lock
DiscoverLock ==
    /\ dpc = "sleep"
    /\ dlock = "free"
    /\ dlock' = "discover"
    /\ dpc' = "snapshot"
    /\ UNCHANGED <<zeroconf, zc_open, services, snapshot, hpc, last_event>>

\* return list(self.services.values()), which leaves the with block
DiscoverSnapshot ==
    /\ dpc = "snapshot"
    /\ snapshot' = services
    /\ dlock' = "free"
    /\ dpc' = "idle"
    /\ UNCHANGED <<zeroconf, zc_open, services, hpc, last_event>>

\* The browser of open session s reports Added for name n and
\* get_service_info returns the record v; service_data is built, outside the
\* lock. (When get_service_info returns None, or building service_data
\* raises, the callback ends with nothing changed; so does the callback of
\* an Updated event, which on_service_state_change ignores.) A browser runs
\* its callbacks one at a time.
HandleAdded(s, n, v) ==
    /\ s \in zc_open
    /\ hpc[s] = NoCall
    /\ hpc' = [hpc EXCEPT ![s] = <<n, v>>]
    /\ UNCHANGED <<zeroconf, zc_open, services, dlock, dpc, snapshot,
                   last_event>>

\* (mutant) an entry that exists is not replaced
HandleInsert_KeepFirst(s) ==
    /\ hpc[s] # NoCall
    /\ dlock = "free"
    /\ services' = IF services[hpc[s][1]] = 0
                   THEN [services EXCEPT ![hpc[s][1]] = hpc[s][2]]
                   ELSE services
    /\ last_event' = [last_event EXCEPT ![hpc[s][1]] = "added"]
    /\ hpc' = [hpc EXCEPT ![s] = NoCall]
    /\ UNCHANGED <<zeroconf, zc_open, dlock, dpc, snapshot>>

\* with self.lock: self.services[name] = service_data
HandleInsert(s) ==
    /\ hpc[s] # NoCall
    /\ dlock = "free"
    /\ services' = [services EXCEPT ![hpc[s][1]] = hpc[s][2]]
    /\ last_event' = [last_event EXCEPT ![hpc[s][1]] = "added"]
    /\ hpc' = [hpc EXCEPT ![s] = NoCall]
    /\ UNCHANGED <<zeroconf, zc_open, dlock, dpc, snapshot>>

\* The browser of open session s reports Removed for name n:
\* with self.lock: if name in self.services: self.services.pop(name)
HandleRemoved(s, n) ==
    /\ s \in zc_open
    /\ hpc[s] = NoCall
    /\ dlock = "free"
    /\ services' = [services EXCEPT ![n] = 0]
    /\ last_event' = [last_event EXCEPT ![n] = "removed"]
    /\ UNCHANGED <<zeroconf, zc_open, dlock, dpc, snapshot, hpc>>

\* close(): if self.zeroconf: self.zeroconf.close(). The latest session ends;
\* self.zeroconf and self.services stay as they are. A callback of the
\* session that has resolved its record still stores it.
Close ==
    /\ zeroconf \in zc_open
    /\ zc_open' = zc_open \ {zeroconf}
    /\ UNCHANGED <<zeroconf, services, dlock, dpc, snapshot, hpc, last_event>>

NextDiscovery ==
    \/ DiscoverStart /\ UNCHANGED <<hubVars, clientVars, appVars>>
    \/ DiscoverFail /\ UNCHANGED <<hubVars, clientVars, appVars>>
    \/ DiscoverLock /\ UNCHANGED <<hubVars, clientVars, appVars>>
    \/ DiscoverSnapshot /\ UNCHANGED <<hubVars, clientVars, appVars>>
    \/ \E s \in Session, n \in Names, v \in Infos :
          HandleAdded(s, n, v) /\ UNCHANGED <<hubVars, clientVars, appVars>>
    \/ \E s \in Session :
          HandleInsert(s) /\ UNCHANGED <<hubVars, clientVars, appVars>>
    \/ \E s \in Session, n \in Names :
          HandleRemoved(s, n) /\ UNCHANGED <<hubVars, clientVars, appVars>>
    \/ Close /\ UNCHANGED <<hubVars, clientVars, appVars>>

\* ===================================================== the consumer's window

\* what discover_services may return to the window: a list of records, each
\* at most once (the values of a dict keyed by name)
Results ==
    {r \in SeqsUpTo(Infos, Cardinality(Infos)) :
        \A i, j \in 1..Len(r) : i # j => r[i] # r[j]}

\* the consumer's sockets whose descriptor is open
OpenSocks == (1..nsock) \ closed_socks

\* __init__(server_host = h), the panel and shutdown part: with a host the
\* panel is hidden at once, without one root.after(100, self._refresh_services)
AppFields(h) ==
    /\ arg_host = h
    /\ server_host = h
    /\ discovery_frame = IF h = 0 THEN "packed" ELSE "forgotten"
    /\ service_list = <<>>
    /\ selected_service = 0
    /\ tpc = IF h = 0 THEN "scheduled" ELSE "off"
    /\ nscans = 0
    /\ closed_socks = {}
    /\ window = "open"

\* _refresh_services, called by the timer of __init__ or by the refresh
\* button: discover_thread starts, shows "scanning" and calls
\* discover_services(timeout=5). (One run at a time is modelled.)
RefreshServices ==
    /\ window = "open"
    /\ tpc = "scheduled" \/ (tpc = "off" /\ discovery_frame = "packed")
    /\ nscans < MaxScans
    /\ tpc' = "scan"
    /\ status' = "scanning"
    /\ UNCHANGED <<arg_host, server_host, discovery_frame, service_list,
                   selected_service, nscans, closed_socks, window>>
    /\ UNCHANGED <<socket, connected, after, cpc, size_data, frame_size,
                   frame_data, stream, peer_closed, sent, ndecoded, rx, nsock>>

\* discover_thread after discover_services has returned `found`: the Listbox
\* and self.services are emptied and filled with found; if found is not
\* empty its first row is selected and _on_service_selected is called
DiscoverThread(found) ==
    /\ window = "open"
    /\ tpc = "scan"
    /\ service_list' = found
    /\ selected_service' = IF found # <<>> THEN found[1] ELSE selected_service
    /\ status' = IF found # <<>> THEN "found" ELSE "none found"
    /\ nscans' = nscans + 1
    /\ tpc' = "off"
    /\ UNCHANGED <<arg_host, server_host, discovery_frame, closed_socks,
                   window>>
    /\ UNCHANGED <<socket, connected, after, cpc, size_data, frame_size,
                   frame_data, stream, peer_closed, sent, ndecoded, rx, nsock>>

\* _on_service_selected: the user selects row i of the Listbox
OnServiceSelected(i) ==
    /\ window = "open"
    /\ discovery_frame = "packed"
    /\ i \in 1..Len(service_list)
    /\ selected_service' = service_list[i]
    /\ UNCHANGED <<arg_host, server_host, discovery_frame, service_list, tpc,
                   nscans, closed_socks, window>>
    /\ UNCHANGED clientVars

\* _connect_selected, the command of the connect button: with a selected
\* service its address becomes the server address, the panel is hidden and a
\* callback is scheduled. (Without one the call does nothing.) The method
\* tests nothing else: not whether it has run before.
ConnectCommand ==
    /\ window = "open"
    /\ selected_service # 0
    /\ server_host' = selected_service
    /\ discovery_frame' = "forgotten"
    /\ after' = Append(after, AfterStart)
    /\ UNCHANGED <<arg_host, service_list, selected_service, tpc, nscans,
                   closed_socks, window>>
    /\ UNCHANGED <<socket, connected, status, cpc, size_data, frame_size,
                   frame_data, stream, peer_closed, sent, ndecoded, rx, nsock>>

\* the connect button is clicked in the panel
ConnectSelected ==
    /\ discovery_frame = "packed"
    /\ ConnectCommand

\* The connect button is used again after the panel has been hidden. The
\* click gave the button the keyboard focus (ttk: clickToFocus), pack_forget
\* only unmaps it, and it is neither disabled nor destroyed: its <space>
\* binding, or a click queued before the first was handled, runs the command
\* once more, between callbacks.
ConnectSelectedAgain ==
    /\ discovery_frame = "forgotten"
    /\ cpc = "idle"
    /\ Len(after) < MaxPending
    /\ ConnectCommand

\* No line of client.py closes a socket that _connect has replaced or that a
\* failed receive has left behind: the object is only dropped. Its descriptor
\* is closed when the runtime finalises the object, at a time of its choosing.
Collect(s) ==
    /\ s \in OpenSocks
    /\ s # socket
    /\ closed_socks' = closed_socks \cup {s}
    /\ UNCHANGED <<arg_host, server_host, discovery_frame, service_list,
                   selected_service, tpc, nscans, window>>
    /\ UNCHANGED clientVars

\* on_closing (between callbacks, on the Tk thread): self.socket.close() if
\* there is one, self.discovery.close(), root.destroy(), which cancels the
\* pending callbacks
OnClosing ==
    /\ window = "open"
    /\ cpc = "idle"
    /\ closed_socks' = closed_socks \cup ({socket} \ {0})
    /\ zc_open' = zc_open \ {zeroconf}
    /\ after' = <<>>
    /\ window' = "destroyed"
    /\ UNCHANGED <<arg_host, server_host, discovery_frame, service_list,
                   selected_service, tpc, nscans>>
    /\ UNCHANGED <<socket, connected, status, cpc, size_data, frame_size,
                   frame_data, stream, peer_closed, sent, ndecoded, rx, nsock>>
    /\ UNCHANGED <<zeroconf, services, dlock, dpc, snapshot, hpc, last_event>>

\* In SpecApp the discovery object stands behind discover_services: what a
\* run returns is any list of records (SpecDiscovery says which).
NextApp ==
    \/ RefreshServices /\ UNCHANGED <<hubVars, discVars>>
    \/ \E found \in Results :
          DiscoverThread(found) /\ UNCHANGED <<hubVars, discVars>>
    \/ \E i \in 1..Cardinality(Infos) :
          OnServiceSelected(i) /\ UNCHANGED <<hubVars, discVars>>
    \/ ConnectSelected /\ UNCHANGED <<hubVars, discVars>>
    \/ Tick /\ UNCHANGED <<hubVars, appVars, discVars>>
    \/ ConnectOK /\ UNCHANGED <<hubVars, appVars, discVars>>
    \/ ConnectFail /\ UNCHANGED <<hubVars, appVars, discVars>>
    \/ RecvTimeout /\ UNCHANGED <<hubVars, appVars, discVars>>
    \/ RecvSizeEOF /\ UNCHANGED <<hubVars, appVars, discVars>>
    \/ HubClose(0) /\ UNCHANGED <<hubVars, appVars, discVars>>
    \/ \E s \in 1..MaxSockets : Collect(s) /\ UNCHANGED <<hubVars, discVars>>
    \/ OnClosing /\ UNCHANGED hubVars

\* ========================================================== specifications

\* a hub, a consumer constructed with a server_host, a discovery object
Init ==
    /\ HubInit
    /\ ClientInit
    /\ AppFields(CHOOSE h \in Infos : TRUE)
    /\ DiscInit

\* a consumer constructed with a server_host or without one
InitApp ==
    /\ HubInit
    /\ DiscInit
    /\ ClientFields
    /\ \E h \in {0} \cup Infos :
          /\ AppFields(h)
          /\ after = IF h = 0 THEN <<>> ELSE <<AfterStart>>

Spec == Init /\ [][Next]_vars

\* the hub with consumers that write to their sockets
NextInbound ==
    \/ Next
    \/ \E c \in Conn : WatchData(c) /\ UNCHANGED <<clientVars, appVars, discVars>>

SpecInbound == Init /\ [][NextInbound]_vars

\* the hub with the statistics line of the capture loop
NextStats ==
    \/ Next
    \/ CapRemoveStats /\ UNCHANGED <<clientVars, appVars, discVars>>
    \/ CapStats /\ UNCHANGED <<clientVars, appVars, discVars>>

SpecStats == Init /\ [][NextStats]_vars

\* the hub with consumers that stop reading
NextSlow ==
    \/ Next
    \/ \E c \in Conn :
          PeerStall(c) /\ UNCHANGED <<clientVars, appVars, discVars>>

SpecSlow == Init /\ [][NextSlow]_vars

SpecClient == Init /\ [][ClientNext]_vars

SpecApp == InitApp /\ [][NextApp]_vars

\* the window with a connect button that can be used more than once
NextAppAgain ==
    \/ NextApp
    \/ ConnectSelectedAgain /\ UNCHANGED <<hubVars, discVars>>

SpecAppAgain == InitApp /\ [][NextAppAgain]_vars

SpecDiscovery == Init /\ [][NextDiscovery]_vars

\* ================================================================= claims

\* ---- framing (SpecClient)

\* the stream has ended before the frame in progress is complete
Truncated ==
    /\ peer_closed
    /\ CASE cpc = "recv_size" ->
              \/ Len(stream) < HeaderLen
              \/ Len(stream) < HeaderLen + UnpackBE(Take(stream, HeaderLen))
         [] cpc = "recv_data" -> Len(stream) < frame_size - Len(frame_data)
         [] OTHER -> FALSE

\* C1: every frame the hub writes on a connection that stays open is
\* reassembled: a receive step that ended without a timeout on an open
\* stream ended by handing Image.open exactly the payload that was sent.
C1_RoundTrip ==
    (rx \notin {"none", "timeout"} /\ ~peer_closed /\ cpc \notin InRecv)
        => /\ rx = "decode"
           /\ ndecoded \in 1..Len(sent)
           /\ frame_data = sent[ndecoded]

\* C2: once the stream has ended short of the frame in progress, the receive
\* step can only end in failure, with connected false and no call of the
\* decoder; and whenever the decoder is called, frame_data is the complete
\* payload that was sent, of the declared length.
C2_TruncatedFails ==
    [][ /\ (cpc \in InRecv /\ Truncated /\ cpc' \notin InRecv)
            => (cpc' = "idle" /\ ~connected' /\ ndecoded' = ndecoded
                /\ rx' = "error")
        /\ (cpc' = "decode" /\ cpc # "decode")
            => /\ Len(frame_data') = frame_size'
               /\ ndecoded' \in 1..Len(sent')
               /\ frame_data' = sent'[ndecoded'] ]_vars

\* C2 witness: the hub closed after the header and part of the payload, and
\* the receive step failed
C2_Witness ==
    /\ peer_closed /\ rx = "error" /\ cpc = "idle" /\ ~connected
    /\ Len(size_data) = HeaderLen
    /\ frame_data # <<>> /\ Len(frame_data) < frame_size

\* C3: while bytes of the frame are available on an open stream, the receive
\* step keeps accumulating (or goes on to decode): a short read is no error.
C3_ShortReadKeepsWaiting ==
    [][ (cpc \in InRecv /\ ~peer_closed /\ stream # <<>>)
            => cpc' \in InRecv \cup {"decode"} ]_vars

\* ---- hub (Spec, SpecInbound)

Count(s, x) == Cardinality({i \in 1..Len(s) : s[i] = x})
Increasing(s) == \A i, j \in 1..Len(s) : i < j => s[i] < s[j]
GotFrame(c) == delivered[c] # <<>> /\ Last(delivered[c]) = frame_no
PassOver == kpc = "send" /\ kpc' # "send"

\* C4: in a fan-out pass a send that raises only notes its socket: the loop
\* moves to the next socket, the list is not changed before the pass is over,
\* and when it is over every socket of the list either was noted or got the
\* whole packet; the noted ones are then out of the list, and a socket that
\* has left the list never returns to it.
C4_FanOutIsolation ==
    [][ /\ (kpc = "send" /\ kpc' = "send")
            => /\ clients' = clients
               /\ idx' # idx => idx' = idx + 1
        /\ PassOver
            => /\ idx = Len(clients) + 1
               /\ \A i \in 1..Len(clients) :
                    \/ clients[i] \in Range(disconnected_clients)
                    \/ GotFrame(clients[i])
               /\ Range(clients') =
                    Range(clients) \ Range(disconnected_clients)
        /\ \A c \in Conn :
             (wpc[c] # "off" /\ c \notin Range(clients))
                => c \notin Range(clients') ]_vars

\* C4 witness: a pass over two sockets is complete; the send to the first
\* raised and the second got the packet
C4_Witness ==
    /\ kpc = "send" /\ idx > Len(clients) /\ Len(clients) >= 2
    /\ clients[1] \in Range(disconnected_clients)
    /\ GotFrame(clients[2])

\* C5: every socket's log of packets is strictly increasing (no packet twice,
\* none out of order); the list holds no socket twice; during a pass every
\* socket already visited has the current packet exactly once unless its
\* send raised, and no socket still to be visited has it; a packet that is
\* built and not yet fanned out has reached nobody.
C5_ExactlyOnceInOrder ==
    /\ \A c \in Conn :
        /\ Increasing(delivered[c])
        /\ \A i \in 1..Len(delivered[c]) : delivered[c][i] \in 1..frame_no
    /\ \A i, j \in 1..Len(clients) : i # j => clients[i] # clients[j]
    /\ kpc = "send" =>
        \A i \in 1..Len(clients) :
            Count(delivered[clients[i]], frame_no) =
                IF i < idx /\ clients[i] \notin Range(disconnected_clients)
                THEN 1 ELSE 0
    /\ kpc = "lock" => \A c \in Conn : Count(delivered[c], frame_no) = 0

\* C5 witness: one socket got packets 1 and 2 in that order and a socket
\* accepted later got packet 2
C5_Witness ==
    \E c, d \in Conn :
        /\ c # d
        /\ delivered[c] = <<1, 2>>
        /\ delivered[d] = <<2>>

\* C6: once stop() has returned, the listening socket is closed, the list is
\* empty and every accepted socket is closed.
C6_ShutdownComplete ==
    (mpc = "returned" /\ stops >= 1)
        => /\ server_socket # "listening"
           /\ clients = <<>>
           /\ \A c \in Conn : csock[c] # "open"

Stopped ==
    /\ ~running
    /\ clients = <<>>
    /\ server_socket \in {"None", "closed"}

StopStep ==
    \/ mpc # "stop_clients" /\ mpc' = "stop_clients"
    \/ mpc = "stop_clients" /\ mpc' = "stop_listen"
    \/ mpc = "stop_listen" /\ mpc' = "returned"

\* C7: a step of stop() taken on a stopped server (not running, empty list,
\* listening socket closed or never created) leaves it stopped, and no
\* exception leaves stop().
C7_StopIdempotent ==
    [][ (StopStep /\ Stopped) => (Stopped' /\ raised' = "none") ]_vars

\* C7 witness: a second call of stop() has returned on a server that had
\* been started
C7_Witness ==
    /\ stops = 2 /\ mpc = "returned"
    /\ kpc # "off"
    /\ Stopped

\* C8: while the server is serving and stop() has not been called, neither
\* loop has ended.
C8_LoopsRunUntilStop ==
    (mpc = "serving" /\ stops = 0) => (apc # "done" /\ kpc # "done")

\* C9: when a fan-out pass is over, every socket whose send raised is out of
\* the list and closed.
C9_FailedSendDestroys ==
    [][ PassOver
            => \A c \in Range(disconnected_clients) :
                 c \notin Range(clients') /\ csock'[c] = "closed" ]_vars

Started == discovery_frame = "forgotten"

\* C11: a connect attempt that does not connect leaves the consumer not
\* connected, without a socket, showing the failure, and with one more
\* callback scheduled 2 s ahead; and while the window is open a consumer that
\* has started connecting always has a callback pending when none is running,
\* so it goes on retrying.
C11_RetryForever ==
    [][ /\ (cpc = "connect" /\ cpc' # "connect" /\ ~connected')
            => /\ status' = "ConnectError"
               /\ socket' = 0
               /\ cpc' = "idle"
               /\ after' = Append(after, AfterFail)
        /\ (window' = "open" /\ Started' /\ cpc' = "idle")
            => after' # <<>> ]_vars

\* C11 witness: a consumer that has never connected has failed to connect and
\* its next attempt is pending, 2 s ahead
C11_Witness ==
    /\ window = "open" /\ Started
    /\ nsock = 0 /\ socket = 0 /\ ~connected
    /\ status = "ConnectError"
    /\ cpc = "idle" /\ after = <<AfterFail>>

\* a receive step ends without reaching the decoder
RecvFailed == cpc \in InRecv /\ cpc' = "idle"

\* C12 (as stated): a receive step that fails, by a timeout or by an error,
\* leaves the consumer not connected with the same retry scheduled, the one
\* of a failure (2 s ahead).
C12_SameScheduling ==
    [][ RecvFailed
            => (~connected' /\ after' = Append(after, AfterFail)) ]_vars

\* C12 (amended): a receive step that fails, by a timeout or by an error,
\* leaves the consumer not connected, keeps its socket object, and schedules
\* exactly one further callback. After a timeout that callback is 10 ms
\* ahead and the status text is as it was; after an error it is 2 s ahead
\* and the status shows the failure.
C12_SoftAndHardFailure ==
    [][ RecvFailed
            => /\ ~connected'
               /\ socket' = socket /\ nsock' = nsock
               /\ rx' \in {"timeout", "error"}
               /\ rx' = "timeout"
                    => (after' = Append(after, AfterOk) /\ status' = status)
               /\ rx' = "error"
                    => /\ after' = Append(after, AfterFail)
                       /\ status' \in {"struct.error", "ConnectionError"} ]_vars

\* C12 witness: the second connection of the consumer timed out: not
\* connected, the status still that of the connect, the reconnect 10 ms ahead
C12_Witness ==
    /\ nsock = 2 /\ socket = 2
    /\ rx = "timeout" /\ ~connected /\ status = "connected"
    /\ cpc = "idle" /\ after = <<AfterOk>>

\* ---- consumer: discovery panel (SpecApp)

\* C13: a consumer constructed without a server_host attempts a connection
\* only after a discovery run has presented its results and the connect
\* button has been used; the button takes the address of the selected
\* service, which is one of the rows presented last. A consumer constructed
\* with a server_host never runs discovery and keeps that address.
C13_ConnectsToSelected ==
    [][ /\ (arg_host = 0 /\ cpc' = "connect")
            => (nscans' >= 1 /\ Started' /\ server_host' # 0)
        /\ (~Started /\ Started')
            => /\ server_host' = selected_service
               /\ selected_service \in Range(service_list)
        /\ arg_host # 0
            => (nscans' = 0 /\ tpc' = "off" /\ server_host' = arg_host) ]_vars

\* callbacks of _connect_and_receive that are pending or running
Loops == Len(after) + (IF cpc = "idle" THEN 0 ELSE 1)

\* C21: while the window is open, a consumer that has started connecting has
\* exactly one invocation of _connect_and_receive pending or running.
C21_SingleLoop == (window = "open" /\ Started) => Loops = 1

\* C20: the consumer has at most one socket with an open descriptor.
C20_OneOpenSocket == Cardinality(OpenSocks) <= 1

\* ---- discovery object (SpecDiscovery)

C15_CloseClearsCache ==
    [][ (zc_open' # zc_open /\ zc_open' \subseteq zc_open)
            => services' = NoKeys ]_vars

\* ---- hub: lock, failures of a cycle, slow consumers

\* C16: a thread that is at a statement reading or writing self.clients holds
\* the lock (the fan-out loop and the removals after it; the length read of
\* the statistics line).
C16_LockDiscipline == kpc \in {"send", "stats"} => lock = "capture"

\* C17: a cycle that fails before the fan-out leaves the list, the packets
\* delivered and the lock as they were and goes to the backoff; during the
\* backoff no packet is sent and the lock is not held by the capture thread;
\* the backoff ends at the loop test; and the loop ends at its test only when
\* running is false.
C17_CaptureFailureRetries ==
    [][ /\ (kpc = "loop" /\ kpc' = "backoff")
            => /\ running
               /\ clients' = clients /\ delivered' = delivered
               /\ frame_no' = frame_no /\ lock' = lock
        /\ kpc = "backoff"
            => /\ kpc' \in {"backoff", "loop"}
               /\ lock # "capture"
               /\ delivered' = delivered
               /\ kpc' = "loop" => clients' = clients
        /\ (kpc = "loop" /\ kpc' = "done") => ~running ]_vars

\* C17 witness: with a consumer connected that has already got a packet, a
\* cycle has failed and the capture thread is in its backoff
C17_Witness ==
    /\ kpc = "backoff" /\ running
    /\ clients # <<>>
    /\ \E c \in Range(clients) : delivered[c] # <<>>

\* C18: a cycle whose screenshot is wider than 1280 goes on to the fan-out.
C18_WideImageSent ==
    [][ (kpc = "loop" /\ width' > MaxWidth) => kpc' = "lock" ]_vars

\* sendall is waiting on a consumer that does not read
Blocked ==
    /\ kpc = "send" /\ idx <= Len(clients)
    /\ csock[clients[idx]] = "open"
    /\ peer[clients[idx]] = "stalled"

\* C19: while a send waits on a consumer that does not read, the lock is free
\* for the accept loop and the watchers, and no other consumer of the list is
\* left without the packet.
C19_SlowConsumerNoStall ==
    Blocked
        => /\ lock = "free"
           /\ \A i \in 1..Len(clients) : i # idx => GotFrame(clients[i])

\* C22: every socket of the list is one the hub has not closed; a send of the
\* fan-out pass is made with the lock held, on a socket of the list that the
\* hub has not closed; and when the hub closes a socket (a watcher, or
\* stop()) the socket is out of the list, removed before or in the same
\* locked step.
C22_NoSendOnClosed ==
    [][ /\ \A c \in Range(clients') : csock'[c] = "open"
        /\ (kpc = "send" /\ kpc' = "send" /\ idx' # idx)
            => /\ lock = "capture"
               /\ idx <= Len(clients)
               /\ csock[clients[idx]] = "open"
        /\ \A c \in Conn :
             (csock[c] = "open" /\ csock'[c] = "closed")
                => /\ c \notin Range(clients')
                   /\ c \in Range(clients) => (lock = "free" /\ lock' = "free") ]_vars

\* C22 witness: a fan-out pass is about to send to a socket of the list
\* while a socket that had been getting packets has been removed and closed
\* by its watcher
C22_Witness ==
    /\ kpc = "send" /\ idx <= Len(clients)
    /\ \E c \in Conn :
         /\ wpc[c] = "done" /\ csock[c] = "closed"
         /\ delivered[c] # <<>>
         /\ c \notin Range(clients)

====
